---- MODULE Spec2Model ----
(***************************************************************************)
(* The line filters of porla (rust-bin): shuffle-optimized, shuffle, b64,  *)
(* jsonify, limit and timestamp, as state machines over their standard     *)
(* input.                                                                  *)
(*                                                                         *)
(* A string is a sequence of one-character strings; every string function  *)
(* of the sources (str::replace, trim_end, the regex built by build_regex) *)
(* works on those characters.                                              *)
(***************************************************************************)
EXTENDS Integers, Sequences, FiniteSets, TLC

VARIABLES prog, args, status, parser, stdin, stdout, log, buffer, now

vars == <<prog, args, status, parser, stdin, stdout, log, buffer, now>>

(***************************************************************************)
(* Bounds of the model.                                                    *)
(***************************************************************************)
\* words and separators in one input line of the single-line runs
MaxTokens == 5
\* lines in one input stream of the multi-line runs
MaxLines == 3
\* the longest interval of limit, in clock ticks
MaxInterval == 1
\* the most clock ticks between two lines read by limit
MaxStep == 2
\* the latest reading of the system clock in timestamp, in seconds
MaxClock == 2

(***************************************************************************)
(* std string functions                                                    *)
(***************************************************************************)
\* the line feed, the one control character of the model
LineFeed == "\n"

\* char::is_whitespace, on the characters of the model
IsSpace(c) == c = " " \/ c = LineFeed

RECURSIVE TrimEnd(_)
\* str::trim_end
TrimEnd(s) ==
    IF s = <<>> THEN s
    ELSE IF IsSpace(s[Len(s)]) THEN TrimEnd(SubSeq(s, 1, Len(s) - 1))
    ELSE s

\* p occurs in s at index i
StartsWithAt(s, i, p) ==
    /\ i + Len(p) - 1 <= Len(s)
    /\ SubSeq(s, i, i + Len(p) - 1) = p

\* str::contains
Contains(s, p) == \E i \in 1..(Len(s) + 1) : StartsWithAt(s, i, p)

RECURSIVE ReplaceFrom(_, _, _, _)
ReplaceFrom(s, i, from, to) ==
    IF i > Len(s) THEN <<>>
    ELSE IF StartsWithAt(s, i, from)
         THEN to \o ReplaceFrom(s, i + Len(from), from, to)
         ELSE <<s[i]>> \o ReplaceFrom(s, i + 1, from, to)

\* str::replace with a non-empty pattern: every non-overlapping occurrence,
\* found left to right in the original text
Replace(s, from, to) == ReplaceFrom(s, 1, from, to)

\* format!("{{{}}}", name)
Placeholder(name) == <<"{">> \o name \o <<"}">>

(***************************************************************************)
(* shuffle-optimized: build_regex                                          *)
(***************************************************************************)
\* the characters build_regex escapes
RegexSpecial == {".", "*", "+", "?", "^", "$", "(", ")", "[", "]", "|", "\\"}

\* r"(\S+)"
WordGroup == <<"(", "\\", "S", "+", ")">>
\* r"(.+)"
RestGroup == <<"(", ".", "+", ")">>

RECURSIVE FieldEnd(_, _)
\* the inner loop of build_regex: the index of the first '}' at or after i,
\* Len(p) + 1 when the characters run out first
FieldEnd(p, i) ==
    IF i > Len(p) \/ p[i] = "}" THEN i ELSE FieldEnd(p, i + 1)

\* EscapeChar with the escaping left out
EscapeCharPlain(ch) == <<ch>>

\* the match on a character outside braces
EscapeChar(ch) == IF ch \in RegexSpecial THEN <<"\\", ch>> ELSE <<ch>>

\* FieldGroup with the two groups swapped
FieldGroupSwapped(more) == IF more THEN RestGroup ELSE WordGroup

\* the group pushed for a field: more is true when characters follow the field
FieldGroup(more) == IF more THEN WordGroup ELSE RestGroup

RECURSIVE BuildFrom(_, _)
BuildFrom(p, i) ==
    IF i > Len(p) THEN [ok |-> TRUE, regex |-> <<>>, fields |-> <<>>]
    ELSE IF p[i] = "{"
         THEN LET e    == FieldEnd(p, i + 1)
                  name == SubSeq(p, i + 1, e - 1)
                  next == IF e > Len(p) THEN e ELSE e + 1
                  rest == BuildFrom(p, next)
              IN  [ok     |-> TRUE,
                   regex  |-> FieldGroup(next <= Len(p)) \o rest.regex,
                   fields |-> <<name>> \o rest.fields]
         ELSE LET rest == BuildFrom(p, i + 1)
              IN  [ok     |-> TRUE,
                   regex  |-> EscapeChar(p[i]) \o rest.regex,
                   fields |-> rest.fields]

\* build_regex(pattern): Ok((regex, fields)); it has no Err return
build_regex(pattern) == BuildFrom(pattern, 1)

(***************************************************************************)
(* The regex crate, for the expressions build_regex produces: anchors,     *)
(* escaped characters, '.', plain characters and the two groups.  Greedy,  *)
(* leftmost-first: a group takes the longest text for which the rest of    *)
(* the expression still matches.                                           *)
(***************************************************************************)
Atom(k, c) == [k |-> k, c |-> c]

RECURSIVE ParseRegex(_, _)
ParseRegex(r, i) ==
    IF i > Len(r) THEN <<>>
    ELSE IF r[i] = "\\" /\ i < Len(r)
         THEN <<Atom("lit", r[i + 1])>> \o ParseRegex(r, i + 2)
    ELSE IF StartsWithAt(r, i, WordGroup)
         THEN <<Atom("word", "")>> \o ParseRegex(r, i + Len(WordGroup))
    ELSE IF StartsWithAt(r, i, RestGroup)
         THEN <<Atom("rest", "")>> \o ParseRegex(r, i + Len(RestGroup))
    ELSE IF r[i] = "^" THEN <<Atom("bol", "")>> \o ParseRegex(r, i + 1)
    ELSE IF r[i] = "$" THEN <<Atom("eol", "")>> \o ParseRegex(r, i + 1)
    ELSE IF r[i] = "." THEN <<Atom("any", "")>> \o ParseRegex(r, i + 1)
    ELSE <<Atom("lit", r[i])>> \o ParseRegex(r, i + 1)

\* RegexNew without the two anchors around the pattern
RegexNewUnanchored(regex) == ParseRegex(regex, 1)

\* Regex::new(&format!("^{}$", regex_pattern))
RegexNew(regex) == ParseRegex(<<"^">> \o regex \o <<"$">>, 1)

NoCaps == [ok |-> FALSE, caps |-> <<>>]

RECURSIVE RunLen(_, _, _)
\* how many characters from pos on a group may take: \S for a word group,
\* any character for a rest group (a line holds no '\n')
RunLen(k, s, pos) ==
    IF pos > Len(s) THEN 0
    ELSE IF k = "word" /\ IsSpace(s[pos]) THEN 0
    ELSE 1 + RunLen(k, s, pos + 1)

RECURSIVE MatchFrom(_, _, _, _)
MatchFrom(atoms, i, s, pos) ==
    IF i > Len(atoms) THEN [ok |-> TRUE, caps |-> <<>>]
    ELSE LET a == atoms[i] IN
    CASE a.k = "bol" -> IF pos = 1 THEN MatchFrom(atoms, i + 1, s, pos) ELSE NoCaps
      [] a.k = "eol" -> IF pos = Len(s) + 1 THEN MatchFrom(atoms, i + 1, s, pos) ELSE NoCaps
      [] a.k = "lit" -> IF pos <= Len(s) /\ s[pos] = a.c
                        THEN MatchFrom(atoms, i + 1, s, pos + 1) ELSE NoCaps
      [] a.k = "any" -> IF pos <= Len(s)
                        THEN MatchFrom(atoms, i + 1, s, pos + 1) ELSE NoCaps
      [] OTHER ->
           LET good == {n \in 1..RunLen(a.k, s, pos) :
                            MatchFrom(atoms, i + 1, s, pos + n).ok}
           IN  IF good = {} THEN NoCaps
               ELSE LET n    == CHOOSE m \in good : \A o \in good : o <= m
                        rest == MatchFrom(atoms, i + 1, s, pos + n)
                    IN  [ok   |-> TRUE,
                         caps |-> <<SubSeq(s, pos, pos + n - 1)>> \o rest.caps]

\* Regex::captures on an expression that starts with '^': caps[i] is group i
Captures(atoms, text) == MatchFrom(atoms, 1, text, 1)

(***************************************************************************)
(* The gullwing crate (Parser::new, Parser::parse, ParseResult, Value) is  *)
(* a dependency whose source is not in the repository; it is modelled from *)
(* the specification's sections 3 and 4.                                   *)
(***************************************************************************)
Digits == <<"0", "1", "2", "3", "4", "5", "6", "7", "8", "9">>

IsDigit(c) == \E d \in 1..Len(Digits) : Digits[d] = c

DigitVal(c) == (CHOOSE d \in 1..Len(Digits) : Digits[d] = c) - 1

RECURSIVE ParseDigits(_)
\* the value of a non-empty run of decimal digits
ParseDigits(t) ==
    IF Len(t) = 1 THEN DigitVal(t[1])
    ELSE 10 * ParseDigits(SubSeq(t, 1, Len(t) - 1)) + DigitVal(t[Len(t)])

AllDigits(t) == t # <<>> /\ \A k \in 1..Len(t) : IsDigit(t[k])

RECURSIVE NatToString(_)
NatToString(n) ==
    IF n < 10 THEN <<Digits[n + 1]>>
    ELSE NatToString(n \div 10) \o <<Digits[(n % 10) + 1]>>

StringValue(t) == [tag |-> "String", s |-> t, i |-> 0, b |-> FALSE]
IntValue(n)    == [tag |-> "Int", s |-> <<>>, i |-> n, b |-> FALSE]
UIntValue(n)   == [tag |-> "UInt", s |-> <<>>, i |-> n, b |-> FALSE]
BoolValue(x)   == [tag |-> "Bool", s |-> <<>>, i |-> 0, b |-> x]

NoValue == [ok |-> FALSE, v |-> StringValue(<<>>)]
SomeValue(v) == [ok |-> TRUE, v |-> v]

\* the coercion table of section 4.2 (the float hint is not modelled: no
\* template of the model uses it)
Coerce(t, hint) ==
    CASE hint = <<"d">> ->
           IF AllDigits(t) THEN SomeValue(IntValue(ParseDigits(t)))
           ELSE IF Len(t) > 1 /\ t[1] = "-" /\ AllDigits(Tail(t))
                THEN SomeValue(IntValue(0 - ParseDigits(Tail(t))))
           ELSE IF Len(t) > 1 /\ t[1] = "+" /\ AllDigits(Tail(t))
                THEN SomeValue(IntValue(ParseDigits(Tail(t))))
           ELSE NoValue
      [] hint = <<"u">> ->
           IF AllDigits(t) THEN SomeValue(UIntValue(ParseDigits(t))) ELSE NoValue
      [] hint = <<"b">> ->
           IF t = <<"t", "r", "u", "e">> THEN SomeValue(BoolValue(TRUE))
           ELSE IF t = <<"f", "a", "l", "s", "e">> THEN SomeValue(BoolValue(FALSE))
           ELSE NoValue
      [] OTHER -> SomeValue(StringValue(t))

\* Value::as_str
ValueIsStr(v) == v.tag = "String"

\* Value's Display
ValueToString(v) ==
    CASE v.tag = "String" -> v.s
      [] v.tag = "Bool"   -> IF v.b THEN <<"t", "r", "u", "e">>
                             ELSE <<"f", "a", "l", "s", "e">>
      [] v.i < 0          -> <<"-">> \o NatToString(0 - v.i)
      [] OTHER            -> NatToString(v.i)

RECURSIVE ColonAt(_, _)
\* the index of the first ':' of a field's content, Len + 1 when it has none
ColonAt(c, i) == IF i > Len(c) \/ c[i] = ":" THEN i ELSE ColonAt(c, i + 1)

FieldSeg(content, last) ==
    LET k == ColonAt(content, 1)
    IN  [k    |-> "field",
         c    |-> "",
         name |-> SubSeq(content, 1, k - 1),
         hint |-> SubSeq(content, k + 1, Len(content)),
         last |-> last]

LiteralSeg(ch) == [k |-> "lit", c |-> ch, name |-> <<>>, hint |-> <<>>, last |-> FALSE]

RECURSIVE CompileFrom(_, _)
CompileFrom(p, i) ==
    IF i > Len(p) THEN [ok |-> TRUE, segs |-> <<>>]
    ELSE IF p[i] = "{"
         THEN LET e == FieldEnd(p, i + 1)
              IN  IF e > Len(p) THEN [ok |-> FALSE, segs |-> <<>>]
                  ELSE LET rest == CompileFrom(p, e + 1)
                       IN  [ok   |-> rest.ok,
                            segs |-> <<FieldSeg(SubSeq(p, i + 1, e - 1), e = Len(p))>>
                                         \o rest.segs]
         ELSE LET rest == CompileFrom(p, i + 1)
              IN  [ok |-> rest.ok, segs |-> <<LiteralSeg(p[i])>> \o rest.segs]

\* Parser::new(spec): Err (GrammarError) when a '{' is never closed
ParserNew(spec) == CompileFrom(spec, 1)

SegAtom(seg) ==
    IF seg.k = "lit" THEN Atom("lit", seg.c)
    ELSE IF seg.last THEN Atom("rest", "") ELSE Atom("word", "")

FieldSegs(segs) == SelectSeq(segs, LAMBDA g : g.k = "field")

NoResult == [some |-> FALSE, entries |-> <<>>]

\* an insertion into the name-unique ordered mapping: a name that is already
\* there keeps its place and takes the new value
InsertEntry(entries, name, value) ==
    IF \E k \in 1..Len(entries) : entries[k].name = name
    THEN [k \in 1..Len(entries) |->
             IF entries[k].name = name THEN [name |-> name, value |-> value]
             ELSE entries[k]]
    ELSE Append(entries, [name |-> name, value |-> value])

RECURSIVE NamedEntries(_, _, _)
\* the (name, Value) pairs of the first i fields that are named, inserted in
\* field order
NamedEntries(fields, caps, i) ==
    IF i = 0 THEN <<>>
    ELSE LET f    == fields[i]
             rest == NamedEntries(fields, caps, i - 1)
         IN  IF f.name = <<>> THEN rest
             ELSE InsertEntry(rest, f.name, Coerce(caps[i], f.hint).v)

\* Parser::parse(text): Ok(Some(result)) or Ok(None); a field whose coercion
\* fails makes the whole line a non-match
ParserParse(p, text) ==
    LET atoms  == <<Atom("bol", "")>>
                  \o [k \in 1..Len(p.segs) |-> SegAtom(p.segs[k])]
                  \o <<Atom("eol", "")>>
        m      == Captures(atoms, text)
        fields == FieldSegs(p.segs)
    IN  IF ~m.ok THEN NoResult
        ELSE IF \E k \in 1..Len(fields) : ~Coerce(m.caps[k], fields[k].hint).ok
             THEN NoResult
        ELSE [some |-> TRUE, entries |-> NamedEntries(fields, m.caps, Len(fields))]

\* ParseResult::get(name): the value of the last entry of that name
HasEntry(result, name) == \E k \in 1..Len(result.entries) : result.entries[k].name = name

ResultGet(result, name) ==
    LET ks == {k \in 1..Len(result.entries) : result.entries[k].name = name}
    IN  result.entries[CHOOSE k \in ks : \A o \in ks : o <= k].value

(***************************************************************************)
(* b64: the base64 crate's STANDARD engine (RFC 4648 alphabet, canonical   *)
(* padding) on the bytes of a string.  The characters of the model are the *)
(* printable ASCII characters and the line feed, one byte each in UTF-8.   *)
(***************************************************************************)
\* the characters with codes 32..95, in code order
AsciiLow ==
    <<
       " ", "!", "\"", "#", "$", "%", "&", "'", "(", ")", "*", "+", ",", "-", ".", "/",
       "0", "1", "2", "3", "4", "5", "6", "7", "8", "9", ":", ";", "<", "=", ">", "?",
       "@", "A", "B", "C", "D", "E", "F", "G", "H", "I", "J", "K", "L", "M", "N", "O",
       "P", "Q", "R", "S", "T", "U", "V", "W", "X", "Y", "Z", "[", "\\", "]", "^", "_" >>

\* the characters with codes 97..126, in code order (the model has no
\* character for code 96)
AsciiHigh ==
    <<
       "a", "b", "c", "d", "e", "f", "g", "h", "i", "j", "k", "l", "m", "n", "o", "p",
       "q", "r", "s", "t", "u", "v", "w", "x", "y", "z", "{", "|", "}", "~" >>

\* the STANDARD alphabet, in value order
B64Alphabet ==
    <<
       "A", "B", "C", "D", "E", "F", "G", "H", "I", "J", "K", "L", "M", "N", "O", "P",
       "Q", "R", "S", "T", "U", "V", "W", "X", "Y", "Z", "a", "b", "c", "d", "e", "f",
       "g", "h", "i", "j", "k", "l", "m", "n", "o", "p", "q", "r", "s", "t", "u", "v",
       "w", "x", "y", "z", "0", "1", "2", "3", "4", "5", "6", "7", "8", "9", "+", "/" >>

\* the UTF-8 byte of a character
ByteOf(c) ==
    IF c = LineFeed THEN 10
    ELSE IF \E k \in 1..Len(AsciiLow) : AsciiLow[k] = c
    THEN 31 + CHOOSE k \in 1..Len(AsciiLow) : AsciiLow[k] = c
    ELSE 96 + CHOOSE k \in 1..Len(AsciiHigh) : AsciiHigh[k] = c

\* the character of a byte: 10, or one in 32..126 other than 96
CharOf(b) == IF b = 10 THEN LineFeed ELSE IF b < 96 THEN AsciiLow[b - 31] ELSE AsciiHigh[b - 96]

B64Char(v) == B64Alphabet[v + 1]

IsB64Char(c) == \E k \in 1..Len(B64Alphabet) : B64Alphabet[k] = c

B64Val(c) == (CHOOSE k \in 1..Len(B64Alphabet) : B64Alphabet[k] = c) - 1

RECURSIVE EncodeFrom(_, _)
EncodeFrom(s, i) ==
    LET rem == Len(s) - i + 1
    IN  IF rem <= 0 THEN <<>>
        ELSE IF rem >= 3
             THEN LET n == ByteOf(s[i]) * 65536 + ByteOf(s[i + 1]) * 256 + ByteOf(s[i + 2])
                  IN  <<B64Char(n \div 262144), B64Char((n \div 4096) % 64),
                        B64Char((n \div 64) % 64), B64Char(n % 64)>>
                      \o EncodeFrom(s, i + 3)
        ELSE IF rem = 2
             THEN LET n == ByteOf(s[i]) * 65536 + ByteOf(s[i + 1]) * 256
                  IN  <<B64Char(n \div 262144), B64Char((n \div 4096) % 64),
                        B64Char((n \div 64) % 64), "=">>
        ELSE LET n == ByteOf(s[i]) * 65536
             IN  <<B64Char(n \div 262144), B64Char((n \div 4096) % 64), "=", "=">>

\* STANDARD.encode(input_str.as_bytes())
B64Encode(s) == EncodeFrom(s, 1)

DecodeErr == [ok |-> FALSE, bytes |-> <<>>]

RECURSIVE DecodeFrom(_, _)
\* the bytes of the quads of s from index i on; padding only ends the last quad
DecodeFrom(s, i) ==
    IF i > Len(s) THEN [ok |-> TRUE, bytes |-> <<>>]
    ELSE LET lastq == i + 3 = Len(s)
             pad2  == lastq /\ s[i + 2] = "=" /\ s[i + 3] = "="
             pad1  == lastq /\ ~pad2 /\ s[i + 3] = "="
             k     == IF pad2 THEN 2 ELSE IF pad1 THEN 3 ELSE 4
         IN  IF \E j \in 0..(k - 1) : ~IsB64Char(s[i + j]) THEN DecodeErr
             ELSE LET v1 == B64Val(s[i])
                      v2 == B64Val(s[i + 1])
                      v3 == IF k >= 3 THEN B64Val(s[i + 2]) ELSE 0
                      v4 == IF k = 4 THEN B64Val(s[i + 3]) ELSE 0
                      n  == v1 * 262144 + v2 * 4096 + v3 * 64 + v4
                      b  == <<n \div 65536, (n \div 256) % 256, n % 256>>
                  IN  IF (k = 2 /\ v2 % 16 # 0) \/ (k = 3 /\ v3 % 4 # 0) THEN DecodeErr
                      ELSE LET rest == DecodeFrom(s, i + 4)
                           IN  IF ~rest.ok THEN DecodeErr
                               ELSE [ok |-> TRUE, bytes |-> SubSeq(b, 1, k - 1) \o rest.bytes]

\* STANDARD.decode(input_str.as_bytes())
B64Decode(s) == IF Len(s) % 4 # 0 THEN DecodeErr ELSE DecodeFrom(s, 1)

\* String::from_utf8 on bytes that are printable ASCII or the line feed; any
\* other byte sequence lies outside the characters of the model and counts
\* as an error
FromUtf8(bytes) ==
    IF \A k \in 1..Len(bytes) :
          bytes[k] = 10 \/ (bytes[k] >= 32 /\ bytes[k] <= 126 /\ bytes[k] # 96)
    THEN [ok |-> TRUE, text |-> [k \in 1..Len(bytes) |-> CharOf(bytes[k])]]
    ELSE [ok |-> FALSE, text |-> <<>>]

(***************************************************************************)
(* Rendering                                                               *)
(***************************************************************************)
RECURSIVE SubstituteFields(_, _, _, _)
\* shuffle-optimized: the loop over field_names.iter().enumerate(); caps[i]
\* is caps.get(i + 1), Some for every group of a matching line
SubstituteFields(output, field_names, caps, i) ==
    IF i > Len(field_names) THEN output
    ELSE SubstituteFields(Replace(output, Placeholder(field_names[i]), caps[i]),
                          field_names, caps, i + 1)

\* value.as_str() or else value.to_string()
ValueStr(v) == IF ValueIsStr(v) THEN v.s ELSE ValueToString(v)

RECURSIVE FormatFrom(_, _, _)
FormatFrom(output, entries, i) ==
    IF i > Len(entries) THEN output
    ELSE FormatFrom(Replace(output, Placeholder(entries[i].name), ValueStr(entries[i].value)),
                    entries, i + 1)

\* shuffle: format_output(template, result)
format_output(template, result) == FormatFrom(template, result.entries, 1)

KeyName == <<"k", "e", "y">>
Fixed == <<"f", "i", "x", "e", "d">>
InputName == <<"i", "n", "p", "u", "t">>
OutputPlaceholder == <<"{", "o", "u", "t", "p", "u", "t", "}">>

\* OtherEntries without the test on the name
OtherEntriesAll(entries) == entries

\* b64: the entries the second pass substitutes (name != "input")
OtherEntries(entries) == SelectSeq(entries, LAMBDA e : e.name # InputName)

\* b64: format_output(template, result, output)
b64_format_output(template, result, output) ==
    FormatFrom(Replace(template, OutputPlaceholder, output), OtherEntries(result.entries), 1)

\* jsonify: the serde_json value of a captured Value
JsonValue(v) ==
    CASE v.tag \in {"Int", "UInt"} -> [type |-> "Number", n |-> v.i, s |-> <<>>, b |-> FALSE]
      [] v.tag = "Bool"            -> [type |-> "Bool", n |-> 0, s |-> <<>>, b |-> v.b]
      [] OTHER                     -> [type |-> "String", n |-> 0, s |-> ValueToString(v), b |-> FALSE]

\* jsonify: the object after obj.insert(name, json_value) for every entry in
\* order; a later insert of a name replaces the earlier one
JsonObject(result) ==
    [nm \in {result.entries[k].name : k \in 1..Len(result.entries)} |->
        JsonValue(ResultGet(result, nm))]

(***************************************************************************)
(* The inputs of the model: command lines and input streams                *)
(***************************************************************************)
Fld(n) == <<"{">> \o n \o <<"}">>

SpecAB      == Fld(<<"a">>) \o <<" ">> \o Fld(<<"b">>)
SpecADotB   == Fld(<<"a">>) \o <<".">> \o Fld(<<"b">>)
SpecABDot   == Fld(<<"a">>) \o <<" ">> \o Fld(<<"b">>) \o <<".">>
SpecAnonV   == Fld(<<>>) \o <<" ">> \o Fld(<<"v">>)
SpecNVd     == Fld(<<"n">>) \o <<" ">> \o Fld(<<"v", ":", "d">>)
SpecName    == Fld(<<"n", "a", "m", "e">>)
SpecOpen    == <<"{", "n", "a", "m", "e">>
SpecA       == Fld(<<"a">>)
SpecAA      == Fld(<<"a">>) \o <<" ">> \o Fld(<<"a">>)
SpecBA      == Fld(<<"b">>) \o <<" ">> \o Fld(<<"a">>)
SpecV       == Fld(<<"v">>)
SpecInput   == Fld(InputName)
SpecBInput  == Fld(<<"b">>) \o <<" ">> \o Fld(InputName)
SpecOutIn   == OutputPlaceholder \o <<" ">> \o Fld(InputName)
SpecBOutput == Fld(<<"b">>) \o <<" ">> \o OutputPlaceholder
SpecInOut   == Fld(InputName) \o <<" ">> \o OutputPlaceholder
SpecKey     == Fld(<<"k", "e", "y">>) \o <<" ">> \o Fld(<<>>)
SpecKOnly   == Fld(<<"k">>) \o <<" ">> \o Fld(<<>>)
SpecKeyInt  == Fld(<<>>) \o <<" ">> \o Fld(KeyName \o <<":", "d">>)

\* (input_specification, output_specification) of shuffle and shuffle-optimized
ShufflePairs ==
    { <<SpecAB, SpecA>>, <<SpecAB, SpecBA>>, <<SpecABDot, SpecABDot>>,
      <<SpecADotB, SpecADotB>>, <<SpecAnonV, SpecAnonV>>, <<SpecNVd, SpecV>>,
      <<SpecNVd, SpecNVd>>, <<SpecName, SpecName>>, <<SpecOpen, SpecName>>, <<SpecAA, SpecA>> }

\* (input_specification, output_specification) of b64
B64Pairs ==
    { <<SpecInput, OutputPlaceholder>>, <<SpecBInput, SpecBOutput>>,
      <<SpecBInput, SpecInOut>>, <<SpecOutIn, OutputPlaceholder>>,
      <<SpecAB, OutputPlaceholder>>, <<SpecOpen, OutputPlaceholder>> }

JsonifySpecs == {SpecAB, SpecNVd, SpecAnonV, SpecOpen, SpecAA}

\* limit's --key: absent, or a key specification
LimitKeys ==
    { [some |-> FALSE, spec |-> <<>>], [some |-> TRUE, spec |-> SpecKey],
      [some |-> TRUE, spec |-> SpecKOnly], [some |-> TRUE, spec |-> SpecKeyInt] }

Progs == {"shuffle-optimized", "shuffle", "b64", "jsonify", "limit", "timestamp"}

ArgsOf(p) ==
    CASE p \in {"shuffle-optimized", "shuffle"} ->
           {[input_specification |-> io[1], output_specification |-> io[2]] :
               io \in ShufflePairs}
      [] p = "b64" ->
           {[input_specification |-> io[1], output_specification |-> io[2],
             encode |-> e, decode |-> ~e] : io \in B64Pairs, e \in BOOLEAN}
      [] p = "jsonify" -> {[specification |-> sp] : sp \in JsonifySpecs}
      [] p = "limit" ->
           {[interval |-> iv, key |-> k] : iv \in 0..MaxInterval, k \in LimitKeys}
      [] p = "timestamp" ->
           {a \in [epoch : BOOLEAN, rfc3339 : BOOLEAN] : ~(a.epoch /\ a.rfc3339)}

Words == {<<"x">>, <<"4", "2">>, <<"{", "b", "}">>}
\* the base64 text of "{b}"
B64Word == <<"e", "2", "J", "9">>
\* the base64 text of "x", line feed, "x"
B64TwoLines == <<"e", "A", "p", "4">>
Seps == {<<" ">>, <<".">>, <<"Z">>}

RECURSIVE LinesOf(_, _)
\* the lines of exactly n tokens: a word, a separator, a word, ...
LinesOf(W, n) ==
    IF n = 1 THEN W
    ELSE {l \o t : l \in LinesOf(W, n - 1), t \in (IF n % 2 = 0 THEN Seps ELSE W)}

\* the single lines: up to MaxTokens tokens
Lines(W) == UNION {LinesOf(W, n) : n \in 1..MaxTokens}

StreamLines == {<<"x", " ", "4", "2">>, <<"x">>, <<"{", "b", "}", " ", "x">>}

RECURSIVE StreamsOf(_)
StreamsOf(n) ==
    IF n = 0 THEN {<<>>}
    ELSE {Append(st, l) : st \in StreamsOf(n - 1), l \in StreamLines}

\* the streams of two to MaxLines lines
Streams == UNION {StreamsOf(n) : n \in 2..MaxLines}

InputsOf(p, a) ==
    IF p \in {"limit", "timestamp"} THEN UNION {StreamsOf(n) : n \in 1..MaxLines}
    ELSE
    {<<l>> : l \in Lines(IF p = "b64" /\ ~a.encode
                         THEN (Words \ {<<"4", "2">>}) \cup {B64Word} ELSE Words)}
    \cup (IF p = "b64" /\ ~a.encode
          THEN {<<B64TwoLines>>, <<<<"x">> \o <<" ">> \o B64TwoLines>>} ELSE {})
    \cup Streams

NotCompiled == [ok |-> FALSE]

Init ==
    /\ prog \in Progs
    /\ args \in ArgsOf(prog)
    /\ stdin \in InputsOf(prog, args)
    /\ status = "start"
    /\ parser = NotCompiled
    /\ stdout = <<>>
    /\ log = <<>>
    /\ buffer = <<>>
    /\ now = 0

(***************************************************************************)
(* shuffle-optimized                                                       *)
(***************************************************************************)
\* ShuffleOptimizedNoMatch returning the error from main instead
ShuffleOptimizedNoMatchExit == "error"

\* the status after the else branch of the loop body: error!(...) and on to
\* the next line
ShuffleOptimizedNoMatch == "running"

ShuffleOptimizedStart ==
    /\ prog = "shuffle-optimized"
    /\ status = "start"
    /\ LET b == build_regex(args.input_specification)
       IN  IF b.ok
           THEN /\ parser' = [ok |-> TRUE, pattern |-> RegexNew(b.regex),
                              field_names |-> b.fields]
                /\ status' = "running"
           ELSE /\ status' = "error"
                /\ UNCHANGED parser
    /\ UNCHANGED <<prog, args, stdin, stdout, log, buffer, now>>

ShuffleOptimizedLine ==
    /\ prog = "shuffle-optimized"
    /\ status = "running"
    /\ stdin # <<>>
    /\ LET line == Head(stdin)
           m    == Captures(parser.pattern, TrimEnd(line))
       IN  IF m.ok
           THEN LET output == SubstituteFields(args.output_specification,
                                               parser.field_names, m.caps, 1)
                IN  /\ stdout' = Append(stdout, output)
                    /\ log' = Append(log, [line |-> line, matched |-> TRUE,
                                           names |-> parser.field_names,
                                           vals |-> m.caps, emitted |-> <<output>>])
                    /\ status' = "running"
           ELSE /\ stdout' = stdout
                /\ log' = Append(log, [line |-> line, matched |-> FALSE,
                                       names |-> <<>>, vals |-> <<>>, emitted |-> <<>>])
                /\ status' = ShuffleOptimizedNoMatch
    /\ stdin' = Tail(stdin)
    /\ UNCHANGED <<prog, args, parser, buffer, now>>

(***************************************************************************)
(* shuffle                                                                 *)
(***************************************************************************)
\* the status after the None arm of the match on parse: error!(...) and on
\* to the next line
ShuffleNoMatch == "running"

\* let input_parser = Parser::new(&args.input_specification)?
GullwingStart(spec) ==
    LET p == ParserNew(spec)
    IN  IF p.ok
        THEN /\ parser' = p
             /\ status' = "running"
        ELSE /\ status' = "error"
             /\ UNCHANGED parser

ShuffleStart ==
    /\ prog = "shuffle"
    /\ status = "start"
    /\ GullwingStart(args.input_specification)
    /\ UNCHANGED <<prog, args, stdin, stdout, log, buffer, now>>

\* what a line that yields no output leaves behind; matched records whether
\* the parser matched the line
Dropped(line, matched, st) ==
    /\ stdout' = stdout
    /\ log' = Append(log, [line |-> line, matched |-> matched, names |-> <<>>,
                           vals |-> <<>>, emitted |-> <<>>])
    /\ status' = st

EntryNames(result) == [k \in 1..Len(result.entries) |-> result.entries[k].name]
EntryStrs(result) == [k \in 1..Len(result.entries) |-> ValueStr(result.entries[k].value)]

ShuffleLine ==
    /\ prog = "shuffle"
    /\ status = "running"
    /\ stdin # <<>>
    /\ LET line   == Head(stdin)
           result == ParserParse(parser, TrimEnd(line))
       IN  IF result.some
           THEN LET output == format_output(args.output_specification, result)
                IN  /\ stdout' = Append(stdout, output)
                    /\ log' = Append(log, [line |-> line, matched |-> TRUE,
                                           names |-> EntryNames(result),
                                           vals |-> EntryStrs(result),
                                           emitted |-> <<output>>])
                    /\ status' = "running"
           ELSE Dropped(line, FALSE, ShuffleNoMatch)
    /\ stdin' = Tail(stdin)
    /\ UNCHANGED <<prog, args, parser, buffer, now>>

(***************************************************************************)
(* b64                                                                     *)
(***************************************************************************)
\* the status after the None arm of the match on parse
B64NoMatch == "running"

B64Start ==
    /\ prog = "b64"
    /\ status = "start"
    /\ IF ~args.encode /\ ~args.decode
       THEN /\ status' = "error"
            /\ UNCHANGED parser
       ELSE GullwingStart(args.input_specification)
    /\ UNCHANGED <<prog, args, stdin, stdout, log, buffer, now>>

\* the encoded or decoded text of the input field: Err covers the base64
\* decode error and the invalid UTF-8 of the decoded bytes
Transcode(encode, input_str) ==
    IF encode THEN [ok |-> TRUE, text |-> B64Encode(input_str)]
    ELSE LET d == B64Decode(input_str)
         IN  IF d.ok THEN FromUtf8(d.bytes) ELSE [ok |-> FALSE, text |-> <<>>]

B64Line ==
    /\ prog = "b64"
    /\ status = "running"
    /\ stdin # <<>>
    /\ LET line   == Head(stdin)
           result == ParserParse(parser, TrimEnd(line))
       IN  IF ~result.some THEN Dropped(line, FALSE, B64NoMatch)
           ELSE IF ~HasEntry(result, InputName) THEN Dropped(line, TRUE, "running")
           ELSE LET input_value == ResultGet(result, InputName)
                IN  IF ~ValueIsStr(input_value) THEN Dropped(line, TRUE, "running")
                    ELSE LET output == Transcode(args.encode, input_value.s)
                         IN  IF ~output.ok THEN Dropped(line, TRUE, "running")
                             ELSE LET formatted == b64_format_output(
                                          args.output_specification, result, output.text)
                                  IN  /\ stdout' = Append(stdout, formatted)
                                      /\ log' = Append(log,
                                            [line |-> line, matched |-> TRUE,
                                             names |-> EntryNames(result),
                                             vals |-> EntryStrs(result),
                                             payload |-> output.text,
                                             emitted |-> <<formatted>>])
                                      /\ status' = "running"
    /\ stdin' = Tail(stdin)
    /\ UNCHANGED <<prog, args, parser, buffer, now>>

(***************************************************************************)
(* jsonify                                                                 *)
(***************************************************************************)
\* the status after the None arm of the match on parse
JsonifyNoMatch == "running"

JsonifyStart ==
    /\ prog = "jsonify"
    /\ status = "start"
    /\ GullwingStart(args.specification)
    /\ UNCHANGED <<prog, args, stdin, stdout, log, buffer, now>>

\* the line written is the serde_json text of the object; the model keeps the
\* object
JsonifyLine ==
    /\ prog = "jsonify"
    /\ status = "running"
    /\ stdin # <<>>
    /\ LET line   == Head(stdin)
           result == ParserParse(parser, TrimEnd(line))
       IN  IF result.some
           THEN LET obj == JsonObject(result)
                IN  /\ stdout' = Append(stdout, obj)
                    /\ log' = Append(log, [line |-> line, matched |-> TRUE,
                                           names |-> EntryNames(result),
                                           vals |-> EntryStrs(result),
                                           emitted |-> <<obj>>])
                    /\ status' = "running"
           ELSE Dropped(line, FALSE, JsonifyNoMatch)
    /\ stdin' = Tail(stdin)
    /\ UNCHANGED <<prog, args, parser, buffer, now>>

(***************************************************************************)
(* limit                                                                   *)
(***************************************************************************)
NoKey == [some |-> FALSE, k |-> <<>>]

\* get_key(line, parser)
get_key(line, p) ==
    IF ~p.some THEN [some |-> TRUE, k |-> Fixed]
    ELSE LET result == ParserParse(p.p, TrimEnd(line))
         IN  IF ~result.some THEN NoKey
             ELSE IF HasEntry(result, KeyName) /\ ValueIsStr(ResultGet(result, KeyName))
                  THEN [some |-> TRUE, k |-> ResultGet(result, KeyName).s]
                  ELSE NoKey

\* Elapsed with >= for >
ElapsedOrEqual(t, last_seen, interval) == t - last_seen >= interval

\* now.duration_since(*last_seen) > interval
Elapsed(t, last_seen, interval) == t - last_seen > interval

\* the match on buffer.get(&key)
ShouldPass(buf, key, t, interval) ==
    IF key \in DOMAIN buf THEN Elapsed(t, buf[key], interval) ELSE TRUE

\* buffer.insert(key, now)
BufferInsert(buf, key, t) ==
    [k \in DOMAIN buf \cup {key} |-> IF k = key THEN t ELSE buf[k]]

\* BufferAfter with the insert made for every line that has a key
BufferAfterRefreshed(buf, key, t, should_pass) == BufferInsert(buf, key, t)

\* the table after a line that has a key: if should_pass { buffer.insert }
BufferAfter(buf, key, t, should_pass) ==
    IF should_pass THEN BufferInsert(buf, key, t) ELSE buf

\* args.key.as_ref().map(|k| Parser::new(k)).transpose()?
LimitStart ==
    /\ prog = "limit"
    /\ status = "start"
    /\ IF ~args.key.some
       THEN /\ parser' = [ok |-> TRUE, some |-> FALSE]
            /\ status' = "running"
       ELSE LET p == ParserNew(args.key.spec)
            IN  IF p.ok
                THEN /\ parser' = [ok |-> TRUE, some |-> TRUE, p |-> p]
                     /\ status' = "running"
                ELSE /\ status' = "error"
                     /\ UNCHANGED parser
    /\ buffer' = <<>>
    /\ UNCHANGED <<prog, args, stdin, stdout, log, now>>

\* one pass of the loop; t is Instant::now(), which never runs backwards
LimitLine ==
    /\ prog = "limit"
    /\ status = "running"
    /\ stdin # <<>>
    /\ \E t \in now..(now + MaxStep) :
        LET line    == Head(stdin)
            key     == get_key(line, parser)
            matched == ~parser.some \/ ParserParse(parser.p, TrimEnd(line)).some
        IN  /\ now' = t
            /\ IF key.some
               THEN LET should_pass == ShouldPass(buffer, key.k, t, args.interval)
                    IN  /\ buffer' = BufferAfter(buffer, key.k, t, should_pass)
                        /\ stdout' = IF should_pass THEN Append(stdout, line)
                                     ELSE stdout
                        /\ log' = Append(log,
                              [line |-> line, matched |-> matched,
                               key |-> key, t |-> t,
                               emitted |-> IF should_pass THEN <<line>> ELSE <<>>])
               ELSE /\ UNCHANGED <<buffer, stdout>>
                    /\ log' = Append(log, [line |-> line, matched |-> matched,
                                           key |-> key, t |-> t,
                                           emitted |-> <<>>])
    /\ stdin' = Tail(stdin)
    /\ UNCHANGED <<prog, args, status, parser>>

(***************************************************************************)
(* timestamp                                                               *)
(***************************************************************************)
\* two decimal digits
TwoDigits(n) == <<Digits[(n \div 10) + 1], Digits[(n % 10) + 1]>>

\* format!("{:.6}", now.as_secs_f64()), the clock read in whole seconds
format_epoch(t) == NatToString(t) \o <<".", "0", "0", "0", "0", "0", "0">>

\* DateTime<Utc>::to_rfc3339, in the first minute after the epoch
format_rfc3339(t) ==
    <<"1", "9", "7", "0", "-", "0", "1", "-", "0", "1", "T", "0", "0", ":", "0", "0", ":">>
    \o TwoDigits(t) \o <<"+", "0", "0", ":", "0", "0">>

TimestampStart ==
    /\ prog = "timestamp"
    /\ status = "start"
    /\ status' = IF ~args.epoch /\ ~args.rfc3339 THEN "error" ELSE "running"
    /\ UNCHANGED <<prog, args, parser, stdin, stdout, log, buffer, now>>

\* one pass of the loop; t is SystemTime::now(), which may be set back
\* between two lines
TimestampLine ==
    /\ prog = "timestamp"
    /\ status = "running"
    /\ stdin # <<>>
    /\ \E t \in 0..MaxClock :
        LET line      == Head(stdin)
            timestamp == IF args.epoch THEN format_epoch(t) ELSE format_rfc3339(t)
            written   == timestamp \o <<" ">> \o line
        IN  /\ now' = t
            /\ stdout' = Append(stdout, written)
            /\ log' = Append(log, [line |-> line, matched |-> TRUE, t |-> t,
                                   emitted |-> <<written>>])
    /\ stdin' = Tail(stdin)
    /\ UNCHANGED <<prog, args, status, parser, buffer>>

\* the end of the input ends the loop and main returns Ok(())
Exit ==
    /\ status = "running"
    /\ stdin = <<>>
    /\ status' = "done"
    /\ UNCHANGED <<prog, args, parser, stdin, stdout, log, buffer, now>>

Next ==
    \/ ShuffleOptimizedStart
    \/ ShuffleOptimizedLine
    \/ ShuffleStart
    \/ ShuffleLine
    \/ B64Start
    \/ B64Line
    \/ JsonifyStart
    \/ JsonifyLine
    \/ LimitStart
    \/ LimitLine
    \/ TimestampStart
    \/ TimestampLine
    \/ Exit

Spec == Init /\ [][Next]_vars

(***************************************************************************)
(* Properties.  log holds one entry per line read, in order: the line,     *)
(* whether the compiled pattern matched it, the captured names and values, *)
(* and what was written for it.                                            *)
(***************************************************************************)
Renderers == {"shuffle-optimized", "shuffle", "b64"}

\* the template a line's match is rendered into
Template == args.output_specification

\* the specification the program compiles at startup
InputSpec ==
    CASE prog = "jsonify" -> args.specification
      [] prog = "limit"   -> args.key.spec
      [] OTHER            -> args.input_specification

Rendered(e) == e.emitted[1]

\* the fields of entry e that the second pass of the renderer substitutes
Substituted(e) ==
    {k \in 1..Len(e.names) : ~(prog = "b64" /\ e.names[k] = InputName)}

\* C1: a substituted value is never re-scanned: when the value captured for a
\* field whose placeholder is in the template (or b64's payload, with
\* {output} in the template) contains {other} for another captured field,
\* the rendered line still holds {other}.
C1_NoRescan ==
    \A n \in 1..Len(log) :
        LET e == log[n]
        IN  (prog \in Renderers /\ e.emitted # <<>>) =>
                \A j \in Substituted(e) :
                    /\ \A i \in Substituted(e) \ {j} :
                          ( /\ e.names[i] # e.names[j]
                            /\ Contains(Template, Placeholder(e.names[i]))
                            /\ Contains(e.vals[i], Placeholder(e.names[j])) )
                          => Contains(Rendered(e), Placeholder(e.names[j]))
                    /\ ( /\ prog = "b64"
                         /\ Contains(Template, OutputPlaceholder)
                         /\ Contains(e.payload, Placeholder(e.names[j])) )
                       => Contains(Rendered(e), Placeholder(e.names[j]))

\* some '{' of spec has no '}' after it
Unterminated(spec) ==
    \E i \in 1..Len(spec) :
        spec[i] = "{" /\ \A j \in (i + 1)..Len(spec) : spec[j] # "}"

\* the program compiles a specification at startup
Compiles == prog # "timestamp" /\ ~(prog = "limit" /\ ~args.key.some)

\* C2: once startup is over, the program has stopped with an error exactly
\* when its template has a '{' that is never closed.
C2_UnterminatedFails ==
    (Compiles /\ status # "start") => (status = "error" <=> Unterminated(InputSpec))

\* C3: a line the compiled pattern does not match writes nothing and does not
\* stop the program: after any line the program is still running (or has
\* ended normally, all lines read), and is never stopped with lines unread.
C3_BadLineSkipped ==
    /\ \A n \in 1..Len(log) : ~log[n].matched => log[n].emitted = <<>>
    /\ log # <<>> => status \in {"running", "done"}
    /\ (log # <<>> /\ stdin # <<>>) => status = "running"

\* a line that did not match was dropped and a later line was still written
C3_Witness ==
    \E n \in 1..Len(log) : \E m \in (n + 1)..Len(log) :
        /\ ~log[n].matched
        /\ log[m].emitted # <<>>

\* the entries before n that were written for the key of entry n
EmittedBefore(n) ==
    {m \in 1..(n - 1) : /\ log[m].emitted # <<>>
                        /\ log[m].key.k = log[n].key.k}

SeenBefore(n) ==
    {m \in 1..(n - 1) : log[m].key.some /\ log[m].key.k = log[n].key.k}

Latest(S) == CHOOSE m \in S : \A o \in S : o <= m

\* C4: limit writes the first line of every key; two lines written one after
\* the other for a key arrived more than the interval apart; and a line that
\* arrives no later than the interval after the last line written for its key
\* is dropped.
C4_MinimumInterval ==
    prog = "limit" =>
        \A n \in 1..Len(log) :
            log[n].key.some =>
                /\ SeenBefore(n) = {} => log[n].emitted = <<log[n].line>>
                /\ (log[n].emitted # <<>> /\ EmittedBefore(n) # {}) =>
                      log[n].t - log[Latest(EmittedBefore(n))].t > args.interval
                /\ ( /\ EmittedBefore(n) # {}
                     /\ log[n].t <= log[Latest(EmittedBefore(n))].t + args.interval )
                   => log[n].emitted = <<>>

\* a key's line was written, its next line dropped, and a later one written
C4_Witness ==
    /\ prog = "limit"
    /\ args.interval > 0
    /\ \E n \in 1..Len(log) : \E m \in (n + 1)..Len(log) : \E o \in (m + 1)..Len(log) :
          /\ log[n].key.some /\ log[m].key = log[n].key /\ log[o].key = log[n].key
          /\ log[n].emitted # <<>>
          /\ log[m].emitted = <<>>
          /\ log[o].emitted # <<>>

(***************************************************************************)
(* A template read as the specification reads it: fields and literal       *)
(* characters.  A split of a line gives every field a length; it is valid  *)
(* when the literals stand in the line as written, every field is          *)
(* non-empty, only a field with nothing after it holds whitespace, and the *)
(* whole line is used.                                                     *)
(***************************************************************************)
CloseAt(spec, i) ==
    IF \E j \in i..Len(spec) : spec[j] = "}"
    THEN CHOOSE j \in i..Len(spec) : spec[j] = "}" /\ \A o \in i..(j - 1) : spec[o] # "}"
    ELSE Len(spec) + 1

RECURSIVE Tokens(_, _)
Tokens(spec, i) ==
    IF i > Len(spec) THEN <<>>
    ELSE IF spec[i] = "{"
         THEN <<[k |-> "field", c |-> "", name |-> SubSeq(spec, i + 1, CloseAt(spec, i) - 1)]>>
              \o Tokens(spec, CloseAt(spec, i) + 1)
         ELSE <<[k |-> "lit", c |-> spec[i], name |-> <<>>]>> \o Tokens(spec, i + 1)

FieldCount(toks) == Cardinality({i \in 1..Len(toks) : toks[i].k = "field"})

RECURSIVE Fits(_, _, _, _, _, _)
Fits(toks, i, s, pos, lens, f) ==
    IF i > Len(toks) THEN pos = Len(s) + 1
    ELSE IF toks[i].k = "lit"
         THEN /\ pos <= Len(s)
              /\ s[pos] = toks[i].c
              /\ Fits(toks, i + 1, s, pos + 1, lens, f)
         ELSE /\ pos + lens[f] - 1 <= Len(s)
              /\ i < Len(toks) => \A q \in pos..(pos + lens[f] - 1) : ~IsSpace(s[q])
              /\ Fits(toks, i + 1, s, pos + lens[f], lens, f + 1)

ValidSplits(toks, s) ==
    {lens \in [1..FieldCount(toks) -> 1..Len(s)] : Fits(toks, 1, s, 1, lens, 1)}

RECURSIVE SplitVals(_, _, _, _, _, _)
\* the text each field takes under a valid split
SplitVals(toks, i, s, pos, lens, f) ==
    IF i > Len(toks) THEN <<>>
    ELSE IF toks[i].k = "lit" THEN SplitVals(toks, i + 1, s, pos + 1, lens, f)
    ELSE <<SubSeq(s, pos, pos + lens[f] - 1)>>
         \o SplitVals(toks, i + 1, s, pos + lens[f], lens, f + 1)

\* a is b, or longer than b at the first field where they differ
LongestFirst(a, b) ==
    \/ a = b
    \/ \E j \in DOMAIN a : a[j] > b[j] /\ \A i \in 1..(j - 1) : a[i] = b[i]

LastEntry == log[Len(log)]

HasSpace(t) == \E q \in 1..Len(t) : IsSpace(t[q])

\* the literal text of a template
Literals(toks) == {toks[i].c : i \in {j \in 1..Len(toks) : toks[j].k = "lit"}}

\* every field of the template is named, untyped and followed by literal
\* text, and no name occurs twice
SingleWordFields(toks) ==
    /\ FieldCount(toks) > 0
    /\ \A i \in 1..Len(toks) :
          toks[i].k = "field" =>
              /\ i < Len(toks) /\ toks[i + 1].k = "lit"
              /\ toks[i].name # <<>>
              /\ \A q \in 1..Len(toks[i].name) : toks[i].name[q] # ":"
              /\ \A j \in 1..Len(toks) :
                    (j # i /\ toks[j].k = "field") => toks[j].name # toks[i].name

\* C5: round trip.  When the input specification is also the output template
\* and its fields are single words separated by literal text, a matching
\* line none of whose captured values holds a character of that literal text
\* is written back unchanged.
C5_RoundTrip ==
    ( /\ prog \in {"shuffle-optimized", "shuffle"}
      /\ log # <<>>
      /\ Template = InputSpec
      /\ SingleWordFields(Tokens(InputSpec, 1))
      /\ LastEntry.matched
      /\ \A k \in 1..Len(LastEntry.vals) : \A q \in 1..Len(LastEntry.vals[k]) :
            LastEntry.vals[k][q] \notin Literals(Tokens(InputSpec, 1)) )
    => LastEntry.emitted = <<TrimEnd(LastEntry.line)>>

\* C6: in shuffle-optimized every captured value is non-empty; a field with
\* anything after it in the template holds no whitespace; the values are the
\* valid split of the stripped line that gives each field, first to last,
\* the longest text it can have, so a field with nothing after it takes the
\* rest of the line, spaces included.
C6_LastFieldTakesRest ==
    /\ Captures(RegexNew(build_regex(SpecAB).regex), <<"x", " ", "y", " ", "z">>)
         = [ok |-> TRUE, caps |-> << <<"x">>, <<"y", " ", "z">> >>]
    /\ (prog = "shuffle-optimized" /\ log # <<>> /\ LastEntry.matched) =>
          LET toks == Tokens(InputSpec, 1)
              s    == TrimEnd(LastEntry.line)
              V    == ValidSplits(toks, s)
          IN  /\ \A k \in 1..Len(LastEntry.vals) :
                    /\ LastEntry.vals[k] # <<>>
                    /\ (k < Len(LastEntry.vals) \/ toks[Len(toks)].k = "lit")
                          => ~HasSpace(LastEntry.vals[k])
              /\ \E lens \in V :
                    /\ LastEntry.vals = SplitVals(toks, 1, s, 1, lens, 1)
                    /\ \A o \in V : LongestFirst(lens, o)

\* the last field of a template took text with a space in it
C6_Witness ==
    /\ prog = "shuffle-optimized"
    /\ log # <<>>
    /\ LastEntry.matched
    /\ Len(LastEntry.vals) = 2
    /\ ~HasSpace(LastEntry.vals[1])
    /\ HasSpace(LastEntry.vals[2])

\* the value captured for the field called name, when there is one
Named(e, name) == {k \in 1..Len(e.names) : e.names[k] = name}

\* C7: with the specification "{n} {v:d}" a line matches only when its second
\* word is a base-10 integer, and the match then has a field named v that
\* holds the integer (a JSON number in jsonify's object).
C7_TypeHintCoerced ==
    ( /\ prog \in {"shuffle-optimized", "shuffle", "jsonify"}
      /\ InputSpec = SpecNVd
      /\ log # <<>>
      /\ LastEntry.matched )
    => /\ Named(LastEntry, <<"v">>) # {}
       /\ \A k \in Named(LastEntry, <<"v">>) : AllDigits(LastEntry.vals[k])
       /\ prog = "jsonify" => Rendered(LastEntry)[<<"v">>].type = "Number"

\* C8: the text an anonymous field captured is not reachable by name: no
\* entry of a match has the empty name, and "{}" in the output template is
\* written as it stands.
C8_AnonymousUnreachable ==
    (prog \in Renderers /\ log # <<>> /\ LastEntry.emitted # <<>>) =>
        /\ Named(LastEntry, <<>>) = {}
        /\ Contains(Template, <<"{", "}">>) => Contains(Rendered(LastEntry), <<"{", "}">>)

\* C9: in shuffle-optimized a line matches exactly when it has a valid split,
\* that is when every character of the template outside braces stands in the
\* line as written; each character build_regex escapes, alone as a template,
\* matches the line made of that character and no other.
C9_LiteralsVerbatim ==
    /\ ~Captures(RegexNew(build_regex(SpecADotB).regex), <<"x", "Z", "y">>).ok
    /\ Captures(RegexNew(build_regex(SpecADotB).regex), <<"x", ".", "y">>)
         = [ok |-> TRUE, caps |-> << <<"x">>, <<"y">> >>]
    /\ (prog = "shuffle-optimized" /\ status = "start") =>
          \A c \in RegexSpecial : \A d \in RegexSpecial \cup {"x"} :
              Captures(RegexNew(build_regex(<<c>>).regex), <<d>>).ok <=> c = d
    /\ (prog = "shuffle-optimized" /\ log # <<>>) =>
          (LastEntry.matched <=>
              ValidSplits(Tokens(InputSpec, 1), TrimEnd(LastEntry.line)) # {})

\* a line with another character where the template has '.' was dropped
C9_Witness ==
    /\ prog = "shuffle-optimized"
    /\ InputSpec = SpecADotB
    /\ log # <<>>
    /\ ~LastEntry.matched
    /\ LastEntry.line = <<"x", "Z", "x">>

(***************************************************************************)
(* The two passes of section 4.3, written out on their own: the first      *)
(* occurrence of a placeholder is found, replaced, and the text after it   *)
(* is treated the same way.                                                *)
(***************************************************************************)
FirstAt(s, pat) ==
    CHOOSE i \in 1..Len(s) :
        StartsWithAt(s, i, pat) /\ \A o \in 1..(i - 1) : ~StartsWithAt(s, o, pat)

RECURSIVE ReplaceEvery(_, _, _)
ReplaceEvery(s, pat, to) ==
    IF ~Contains(s, pat) THEN s
    ELSE SubSeq(s, 1, FirstAt(s, pat) - 1) \o to
         \o ReplaceEvery(SubSeq(s, FirstAt(s, pat) + Len(pat), Len(s)), pat, to)

RECURSIVE SecondPass(_, _, _, _)
\* {name} replaced by its value for the entries of e from k on that skip allows
SecondPass(text, e, k, skip) ==
    IF k > Len(e.names) THEN text
    ELSE SecondPass(IF e.names[k] \in skip THEN text
                    ELSE ReplaceEvery(text, Placeholder(e.names[k]), e.vals[k]),
                    e, k + 1, skip)

TwoPasses(e, skip) ==
    SecondPass(ReplaceEvery(Template, OutputPlaceholder, e.payload), e, 1, skip)

B64Wrote == prog = "b64" /\ log # <<>> /\ LastEntry.emitted # <<>>

\* C10 as claimed: b64 writes the template with every {output} replaced by
\* the payload and then, in field order, every {name} replaced for every
\* named entry of the match; no named field is skipped.
C10_NoFieldSkipped ==
    B64Wrote => Rendered(LastEntry) = TwoPasses(LastEntry, {})

\* C10, amended: as claimed, but the entry named input is skipped by the
\* second pass, so {input} in the template is written as it stands; where
\* the template is "{output}" and the payload holds no '{', the line written
\* is the payload, whatever a captured field named output holds.
C10_TwoPassesSkipInput ==
    B64Wrote =>
        /\ Rendered(LastEntry) = TwoPasses(LastEntry, {InputName})
        /\ (Template = OutputPlaceholder /\ ~Contains(LastEntry.payload, <<"{">>))
              => Rendered(LastEntry) = LastEntry.payload
        /\ Contains(Template, Placeholder(InputName))
              => Contains(Rendered(LastEntry), Placeholder(InputName))

\* b64 wrote a line for a template that holds {input}, with another captured
\* field substituted
C10_Witness ==
    /\ B64Wrote
    /\ Template = SpecInOut
    /\ Named(LastEntry, <<"b">>) # {}
    /\ Rendered(LastEntry) = Placeholder(InputName) \o <<" ">> \o LastEntry.payload

\* b64 wrote the payload for "{output}" although a field named output was captured
C10_PrecedenceWitness ==
    /\ B64Wrote
    /\ Named(LastEntry, <<"o", "u", "t", "p", "u", "t">>) # {}
    /\ Rendered(LastEntry) = LastEntry.payload

(***************************************************************************)
(* Anchoring: the whole stripped line, first to last character, against    *)
(* the template.                                                           *)
(***************************************************************************)
\* the whole text has a valid split
WholeFits(toks, s) == ValidSplits(toks, s) # {}

\* a proper prefix of the text has a valid split
PrefixFits(toks, s) ==
    \E j \in 1..(Len(s) - 1) : ValidSplits(toks, SubSeq(s, 1, j)) # {}

\* a part of the text that is not the whole text has a valid split
PartFits(toks, s) ==
    \E i \in 1..Len(s) : \E j \in i..Len(s) :
        /\ <<i, j>> # <<1, Len(s)>>
        /\ ValidSplits(toks, SubSeq(s, i, j)) # {}

\* the programs that match every line against a compiled specification
Matching ==
    \/ prog \in {"shuffle-optimized", "shuffle", "b64", "jsonify"}
    \/ prog = "limit" /\ args.key.some

\* C11: matching is anchored to the whole line.  A line whose stripped text
\* has no valid split from its first to its last character yields no match
\* and no output, also when a prefix or another part of it has one; a match
\* is a match of the whole stripped line.
C11_WholeLineAnchored ==
    /\ Captures(RegexNew(build_regex(SpecABDot).regex),
                <<"x", " ", "4", "2", ".">>).ok
    /\ ~Captures(RegexNew(build_regex(SpecABDot).regex),
                 <<"x", " ", "4", "2", ".", "x">>).ok
    /\ (Matching /\ log # <<>>) =>
          LET toks == Tokens(InputSpec, 1)
              s    == TrimEnd(LastEntry.line)
          IN  /\ ~WholeFits(toks, s) =>
                    (~LastEntry.matched /\ LastEntry.emitted = <<>>)
              /\ LastEntry.matched => WholeFits(toks, s)

\* a line that starts with a match of "{a} {b}." and goes on was dropped
C11_Witness ==
    /\ prog = "shuffle-optimized"
    /\ InputSpec = SpecABDot
    /\ log # <<>>
    /\ LastEntry.line = <<"x", " ", "4", "2", ".", "x">>
    /\ PrefixFits(Tokens(InputSpec, 1), TrimEnd(LastEntry.line))
    /\ ~LastEntry.matched
    /\ LastEntry.emitted = <<>>

\* a line of shuffle with a part that has a valid split, but none as a
\* whole, was dropped
C11_PartWitness ==
    /\ prog = "shuffle"
    /\ log # <<>>
    /\ PartFits(Tokens(InputSpec, 1), TrimEnd(LastEntry.line))
    /\ ~WholeFits(Tokens(InputSpec, 1), TrimEnd(LastEntry.line))
    /\ LastEntry.emitted = <<>>

(***************************************************************************)
(* A field name that occurs twice in the input specification.              *)
(***************************************************************************)
\* the values the two fields of "{a} {a}" take from a stripped line: the
\* text before its first space and the text after it
BothValues(s) ==
    LET toks == Tokens(SpecAA, 1)
        V    == ValidSplits(toks, s)
        lens == CHOOSE l \in V : \A o \in V : LongestFirst(l, o)
    IN  SplitVals(toks, 1, s, 1, lens, 1)

\* C12: with the input specification "{a} {a}" both fields consume input (a
\* line matches only when it has a valid split into the two), and the text
\* written for the template "{a}" is the value of the later field.
C12_LaterFieldWins ==
    ( /\ prog \in {"shuffle-optimized", "shuffle"}
      /\ InputSpec = SpecAA
      /\ Template = SpecA
      /\ log # <<>>
      /\ LastEntry.matched )
    => /\ WholeFits(Tokens(SpecAA, 1), TrimEnd(LastEntry.line))
       /\ LastEntry.emitted = <<BothValues(TrimEnd(LastEntry.line))[2]>>

\* C12 for the programs that look the name up in the match result
C12_LookupLaterFieldWins ==
    ( /\ prog \in {"shuffle", "jsonify"}
      /\ InputSpec = SpecAA
      /\ log # <<>>
      /\ LastEntry.matched )
    => /\ WholeFits(Tokens(SpecAA, 1), TrimEnd(LastEntry.line))
       /\ LastEntry.names = << <<"a">> >>
       /\ LastEntry.vals = <<BothValues(TrimEnd(LastEntry.line))[2]>>
       /\ prog = "shuffle" =>
             LastEntry.emitted = <<BothValues(TrimEnd(LastEntry.line))[2]>>

\* shuffle-optimized wrote the value of the earlier of the two fields
C12_EarlierWritten ==
    /\ prog = "shuffle-optimized"
    /\ InputSpec = SpecAA
    /\ Template = SpecA
    /\ log # <<>>
    /\ LastEntry.line = <<"x", " ", "4", "2">>
    /\ LastEntry.emitted = << <<"x">> >>

(***************************************************************************)
(* limit's table against the lines it wrote.                               *)
(***************************************************************************)
\* the entries of the log that were written for key k
EmittedFor(k) ==
    {m \in 1..Len(log) : log[m].emitted # <<>> /\ log[m].key.k = k}

\* C13: limit's table holds, for every key that had a line written, the time
\* of the last line written for it, so a line that is not written leaves
\* the table as it was; a line that arrives more than the interval after the
\* last line written for its key is written, whatever was dropped in
\* between; a line without a key (no match, or no string field named key)
\* is not written; with no key specification every line has the key "fixed".
C13_DroppedLeavesTable ==
    prog = "limit" =>
        /\ DOMAIN buffer =
              {log[m].key.k : m \in {n \in 1..Len(log) : log[n].emitted # <<>>}}
        /\ \A k \in DOMAIN buffer : buffer[k] = log[Latest(EmittedFor(k))].t
        /\ \A n \in 1..Len(log) :
              /\ ~log[n].key.some => log[n].emitted = <<>>
              /\ ( /\ log[n].key.some
                   /\ EmittedBefore(n) # {}
                   /\ log[n].t - log[Latest(EmittedBefore(n))].t > args.interval )
                 => log[n].emitted = <<log[n].line>>
              /\ ~args.key.some => log[n].key = [some |-> TRUE, k |-> Fixed]
              /\ (args.key.some /\ (~log[n].matched \/ InputSpec # SpecKey))
                    => ~log[n].key.some

\* a key's line was written, its next line dropped no more than the interval
\* before a third, and the third written
C13_Witness ==
    /\ prog = "limit"
    /\ \E n \in 1..Len(log) : \E m \in (n + 1)..Len(log) : \E o \in (m + 1)..Len(log) :
          /\ log[n].key.some /\ log[m].key = log[n].key /\ log[o].key = log[n].key
          /\ log[n].emitted # <<>>
          /\ log[m].emitted = <<>>
          /\ log[o].emitted # <<>>
          /\ log[o].t - log[m].t <= args.interval
          /\ buffer[log[o].key.k] = log[o].t

\* a line matched the key specification, had no string field named key, and
\* was not written
C13_NoKeyWitness ==
    /\ prog = "limit"
    /\ args.key.some
    /\ log # <<>>
    /\ LastEntry.matched
    /\ InputSpec = SpecKeyInt
    /\ ~LastEntry.key.some
    /\ buffer = <<>>

(***************************************************************************)
(* The output stream against the input stream.                             *)
(***************************************************************************)
\* the output lines of one write: writeln ends the text with a line feed,
\* and every line feed inside the text ends a line of its own
LineCount(text) == 1 + Cardinality({q \in 1..Len(text) : text[q] = LineFeed})

\* the output lines written for entry e (jsonify writes the one-line
\* serde_json text of its object)
OutputLines(e) ==
    IF e.emitted = <<>> THEN 0
    ELSE IF prog = "jsonify" THEN 1
    ELSE LineCount(e.emitted[1])

RECURSIVE Written(_)
\* what the first n entries of the log wrote, in the order of the input
Written(n) == IF n = 0 THEN <<>> ELSE Written(n - 1) \o log[n].emitted

\* text ends with the characters of tail
EndsWith(text, tail) ==
    /\ Len(tail) <= Len(text)
    /\ SubSeq(text, Len(text) - Len(tail) + 1, Len(text)) = tail

\* the order of the writes is the order of the lines that made them; a
\* program without a table and a clock writes the same for the same line;
\* timestamp writes once per line, the line after the timestamp; limit
\* writes the line as it read it
OrderedWrites ==
    /\ stdout = Written(Len(log))
    /\ \A n \in 1..Len(log) : Len(log[n].emitted) <= 1
    /\ prog \notin {"limit", "timestamp"} =>
          \A n \in 1..Len(log) : \A m \in 1..Len(log) :
              log[n].line = log[m].line => log[n].emitted = log[m].emitted
    /\ prog = "timestamp" =>
          \A n \in 1..Len(log) :
              /\ Len(log[n].emitted) = 1
              /\ EndsWith(log[n].emitted[1], <<" ">> \o log[n].line)
    /\ prog = "limit" =>
          \A n \in 1..Len(log) : log[n].emitted \in {<<>>, <<log[n].line>>}

\* C14: every filter writes zero or one output line for each input line, in
\* the order of the input lines, and what it writes for a line depends on
\* that line alone (and on the table and the clock in limit); timestamp
\* writes exactly one output line for each input line and limit writes the
\* input line unchanged.
C14_OneLinePerLine ==
    /\ OrderedWrites
    /\ \A n \in 1..Len(log) : OutputLines(log[n]) <= 1
    /\ prog = "timestamp" => \A n \in 1..Len(log) : OutputLines(log[n]) = 1

\* every filter but b64 --decode writes at most one output line for a line
C14_OneLineButDecode ==
    /\ OrderedWrites
    /\ (prog = "b64" => args.encode) =>
          \A n \in 1..Len(log) : OutputLines(log[n]) <= 1
    /\ prog = "timestamp" => \A n \in 1..Len(log) : OutputLines(log[n]) = 1

\* b64 --decode wrote two output lines for one input line
C14_TwoLinesWritten ==
    /\ prog = "b64"
    /\ ~args.encode
    /\ log # <<>>
    /\ LastEntry.line = B64TwoLines
    /\ LastEntry.emitted = << <<"x", LineFeed, "x">> >>

\* timestamp wrote the same line twice in a stream, under two clock readings
C14_TimestampWitness ==
    /\ prog = "timestamp"
    /\ Len(log) >= 2
    /\ log[1].line = log[2].line
    /\ log[1].t > log[2].t
    /\ Len(stdout) = 2

====
